---- MODULE Spec2Model ----
(***************************************************************************)
(* The EV chatbot of app.py: the record store built by load_data and the   *)
(* Model_Key normalisation, the ordered intent cascade of process_query    *)
(* with its entity resolution and answer generators, and the chat page     *)
(* that feeds prompts to it.                                               *)
(*                                                                         *)
(* Python strings are sequences of one-character strings, so that `in`,    *)
(* lower, title, strip, replace and split are computed character by        *)
(* character as Python computes them.  A pandas frame is its parent table  *)
(* together with the sequence of row labels it keeps (labels are 1-based   *)
(* here, 0-based in pandas).  Prices are whole dollars and 0-100 times are *)
(* tenths of a second.  An f-string answer is recorded as its template     *)
(* (kind) with the values interpolated into it; a raised exception is      *)
(* recorded as a result whose kind is the exception's type.                *)
(***************************************************************************)
EXTENDS Integers, Sequences, FiniteSets, TLC

VARIABLES df, pc, prompt, response, messages

vars == <<df, pc, prompt, response, messages>>

\* ------------------------------------------------------------------------
\* Python str operations
\* ------------------------------------------------------------------------

Lowers == <<"a","b","c","d","e","f","g","h","i","j","k","l","m","n","o","p","q","r","s","t","u","v","w","x","y","z">>

Uppers == <<"A","B","C","D","E","F","G","H","I","J","K","L","M","N","O","P","Q","R","S","T","U","V","W","X","Y","Z">>

IsLowerCh(c) == \E i \in 1..26 : Lowers[i] = c

IsUpperCh(c) == \E i \in 1..26 : Uppers[i] = c

IsCased(c) == IsLowerCh(c) \/ IsUpperCh(c)

LowerCh(c) == IF IsUpperCh(c) THEN Lowers[CHOOSE i \in 1..26 : Uppers[i] = c] ELSE c

UpperCh(c) == IF IsLowerCh(c) THEN Uppers[CHOOSE i \in 1..26 : Lowers[i] = c] ELSE c

\* str.lower()
Lower(s) == [i \in 1..Len(s) |-> LowerCh(s[i])]

\* str.upper()
Upper(s) == [i \in 1..Len(s) |-> UpperCh(s[i])]

\* str.title(): the first cased character of every run of cased characters
\* is upper-cased, the others are lower-cased.
Title(s) ==
    [i \in 1..Len(s) |->
        IF i = 1 \/ ~IsCased(s[i-1]) THEN UpperCh(s[i]) ELSE LowerCh(s[i])]

\* sub in s
In(sub, s) ==
    \E i \in 0..(Len(s) - Len(sub)) : \A j \in 1..Len(sub) : s[i+j] = sub[j]

\* any(k in s for k in keys)
AnyIn(keys, s) == \E k \in keys : In(k, s)

\* s.startswith(p)
StartsWith(s, p) == Len(p) <= Len(s) /\ \A j \in 1..Len(p) : s[j] = p[j]

RECURSIVE LStrip(_)
LStrip(s) == IF s # <<>> /\ Head(s) = " " THEN LStrip(Tail(s)) ELSE s

RECURSIVE RStrip(_)
RStrip(s) ==
    IF s # <<>> /\ s[Len(s)] = " " THEN RStrip(SubSeq(s, 1, Len(s) - 1)) ELSE s

\* str.strip()
Strip(s) == RStrip(LStrip(s))

\* s.replace(old, new) for a non-empty old: leftmost occurrences, not
\* overlapping.
RECURSIVE Replace(_, _, _)
Replace(s, old, new) ==
    IF s = <<>> THEN <<>>
    ELSE IF StartsWith(s, old)
         THEN new \o Replace(SubSeq(s, Len(old) + 1, Len(s)), old, new)
         ELSE <<Head(s)>> \o Replace(Tail(s), old, new)

\* s.split(sep) for a one-character sep: always at least one part.
RECURSIVE Split(_, _)
Split(s, sep) ==
    IF \E i \in 1..Len(s) : s[i] = sep
    THEN LET i == CHOOSE k \in 1..Len(s) :
                    s[k] = sep /\ \A j \in 1..(k-1) : s[j] # sep
         IN  <<SubSeq(s, 1, i - 1)>> \o Split(SubSeq(s, i + 1, Len(s)), sep)
    ELSE <<s>>

\* len(s.split()): the number of maximal runs of non-blank characters.
WordCount(s) ==
    Cardinality({i \in 1..Len(s) : s[i] # " " /\ (i = 1 \/ s[i-1] = " ")})

\* Series.str.replace(r'\s+', ' ', regex=True): every run of blanks becomes
\* one blank.
RECURSIVE CollapseWs(_)
CollapseWs(s) ==
    IF s = <<>> THEN <<>>
    ELSE IF Head(s) = " "
         THEN <<" ">> \o CollapseWs(LStrip(s))
         ELSE <<Head(s)>> \o CollapseWs(Tail(s))

\* '{:.0f}' of num/den: the quotient rounded to the nearest integer, ties to
\* the even one.
RoundDiv(num, den) ==
    LET fl == num \div den
        r2 == 2 * (num % den)
    IN  IF r2 < den THEN fl
        ELSE IF r2 > den THEN fl + 1
        ELSE IF fl % 2 = 0 THEN fl ELSE fl + 1

\* The characters of the model in code-point order, for sorted().
Ascii == <<" ","-","0","1","2","3","4","5","6","7","8","9">> \o Uppers \o Lowers

Ord(c) == CHOOSE i \in 1..Len(Ascii) : Ascii[i] = c

\* a < b on str
RECURSIVE StrLess(_, _)
StrLess(a, b) ==
    IF b = <<>> THEN FALSE
    ELSE IF a = <<>> THEN TRUE
    ELSE IF Head(a) = Head(b) THEN StrLess(Tail(a), Tail(b))
    ELSE Ord(Head(a)) < Ord(Head(b))

\* sorted(xs) for distinct strings
RECURSIVE Sorted(_)
Sorted(xs) ==
    IF xs = <<>> THEN <<>>
    ELSE LET k == CHOOSE i \in 1..Len(xs) :
                     \A j \in 1..Len(xs) : j = i \/ StrLess(xs[i], xs[j])
         IN  <<xs[k]>> \o Sorted(SelectSeq(xs, LAMBDA x : x # xs[k]))

\* ------------------------------------------------------------------------
\* The record store
\* ------------------------------------------------------------------------

\* Largest number of rows of cars_data_cleaned.csv the model loads.
MaxRows == 3

\* Rows the CSV file may hold, as written in the file: brand in the maker's
\* own capitalisation, model names with stray blanks.  Accel_0_100 is the
\* column "0-100" in tenths of a second, Battery is in tenths of a kWh.
Catalogue ==
    << [Brand |-> <<"T","e","s","l","a">>, Model |-> <<"M","o","d","e","l"," ","3">>,
        Estimated_US_Value |-> 40000, km_of_range |-> 450, Accel_0_100 |-> 61,
        Top_Speed |-> 201, Battery |-> 575, Efficiency |-> 142,
        Number_of_seats |-> 5, Towing_capacity_in_kg |-> 1000],
       [Brand |-> <<"T","e","s","l","a">>, Model |-> <<"M","o","d","e","l"," ","S"," ">>,
        Estimated_US_Value |-> 90000, km_of_range |-> 600, Accel_0_100 |-> 32,
        Top_Speed |-> 250, Battery |-> 950, Efficiency |-> 165,
        Number_of_seats |-> 5, Towing_capacity_in_kg |-> 1600],
       [Brand |-> <<"B","M","W">>, Model |-> <<"i","4">>,
        Estimated_US_Value |-> 55000, km_of_range |-> 480, Accel_0_100 |-> 57,
        Top_Speed |-> 190, Battery |-> 807, Efficiency |-> 160,
        Number_of_seats |-> 5, Towing_capacity_in_kg |-> 1600],
       [Brand |-> <<"B","M","W">>, Model |-> <<" ","i","X">>,
        Estimated_US_Value |-> 0, km_of_range |-> 630, Accel_0_100 |-> 46,
        Top_Speed |-> 200, Battery |-> 1052, Efficiency |-> 200,
        Number_of_seats |-> 5, Towing_capacity_in_kg |-> 2500],
       [Brand |-> <<"A","u","d","i">>, Model |-> <<"e","-","t","r","o","n"," "," ","G","T">>,
        Estimated_US_Value |-> 0, km_of_range |-> 488, Accel_0_100 |-> 41,
        Top_Speed |-> 245, Battery |-> 850, Efficiency |-> 188,
        Number_of_seats |-> 4, Towing_capacity_in_kg |-> 0] >>

\* The CSV files: every sequence of at most MaxRows distinct catalogue rows;
\* the empty one is the missing or empty file.
CsvFiles ==
    LET picks == UNION {[1..n -> 1..Len(Catalogue)] : n \in 0..MaxRows}
    IN  {[i \in DOMAIN p |-> Catalogue[p[i]]] :
            p \in {f \in picks : \A i, j \in DOMAIN f : f[i] = f[j] => i = j}}

\* load_data(): Brand upper-cased, Model stripped.
load_data(csv) ==
    [i \in DOMAIN csv |->
        [csv[i] EXCEPT !.Brand = Upper(@), !.Model = Strip(@)]]

\* df['Model_Key'] = df['Model'].str.lower().str.replace(r'\s+', ' ')
Model_Key(model) == CollapseWs(Lower(model))

\* The module-level table: load_data() and then the Model_Key column.
LoadedTable(csv) ==
    LET d == load_data(csv)
    IN  [i \in DOMAIN d |-> d[i] @@ ("Model_Key" :> Model_Key(d[i].Model))]

\* ------------------------------------------------------------------------
\* pandas operations; a frame of table d is the sequence of d's row labels
\* it keeps
\* ------------------------------------------------------------------------

\* d itself as a frame
Whole(d) == [i \in DOMAIN d |-> i]

\* Series.mean(), .min(), .max() give NaN on an empty frame: a value is
\* <<v>> and NaN is << >>.
NaN == << >>

Sum(d, f, col) ==
    LET RECURSIVE S(_)
        S(k) == IF k = 0 THEN 0 ELSE d[f[k]][col] + S(k - 1)
    IN  S(Len(f))

\* Series.mean() as the formats '{:,.0f}', '{:.0f}' and '{:.1f}' print it
Mean(d, f, col) ==
    IF f = <<>> THEN NaN ELSE <<RoundDiv(Sum(d, f, col), Len(f))>>

ColMin(d, f, col) ==
    IF f = <<>> THEN NaN
    ELSE <<CHOOSE v \in {d[f[k]][col] : k \in 1..Len(f)} :
               \A k \in 1..Len(f) : v <= d[f[k]][col]>>

ColMax(d, f, col) ==
    IF f = <<>> THEN NaN
    ELSE <<CHOOSE v \in {d[f[k]][col] : k \in 1..Len(f)} :
               \A k \in 1..Len(f) : v >= d[f[k]][col]>>

\* Series.idxmax() of a non-empty frame: the label of the first row holding
\* the maximum (an empty frame raises ValueError, see the callers).
idxmax(d, f, col) ==
    f[CHOOSE k \in 1..Len(f) :
        /\ \A j \in 1..Len(f) : d[f[j]][col] <= d[f[k]][col]
        /\ \A j \in 1..(k-1) : d[f[j]][col] < d[f[k]][col]]

\* Series.idxmin() of a non-empty frame
idxmin(d, f, col) ==
    f[CHOOSE k \in 1..Len(f) :
        /\ \A j \in 1..Len(f) : d[f[j]][col] >= d[f[k]][col]
        /\ \A j \in 1..(k-1) : d[f[j]][col] > d[f[k]][col]]

\* df['Brand'].unique(): the brands in order of first appearance
UniqueBrands(d) ==
    LET firsts == SelectSeq(Whole(d),
                      LAMBDA i : \A j \in 1..(i-1) : d[j].Brand # d[i].Brand)
    IN  [k \in DOMAIN firsts |-> d[firsts[k]].Brand]

\* f[f['Brand'] == b]
BrandRows(d, f, b) == SelectSeq(f, LAMBDA i : d[i].Brand = b)

\* f[f['Estimated_US_Value'] > 0]
PricedRows(d, f) == SelectSeq(f, LAMBDA i : d[i].Estimated_US_Value > 0)

\* f[f['Model_Key'].str.contains(q_key, na=False)] for a key of letters,
\* digits, blanks and hyphens (no regular-expression operator)
KeyMatches(d, q_key) == SelectSeq(Whole(d), LAMBDA i : In(q_key, d[i].Model_Key))

\* ------------------------------------------------------------------------
\* process_query
\* ------------------------------------------------------------------------

\* A returned string: its template, the random.choice taken (0: none), and
\* the strings, rows and numbers formatted into it, in order.
Answer(kind, pick, names, cars, nums) ==
    [kind |-> kind, pick |-> pick, names |-> names, cars |-> cars, nums |-> nums]

\* An exception leaving process_query.
Raise(exc) == Answer(exc, 0, <<>>, <<>>, <<>>)

Exceptions == {"ValueError", "KeyError"}

\* The emptiness test lost: an empty table is treated like any other.
DfEmpty_Never(d) == FALSE

\* if df.empty
DfEmpty(d) == d = <<>>

IsGreeting(q) ==
    AnyIn({<<"h","i">>, <<"h","e","l","l","o">>, <<"h","e","y">>, <<"y","o">>, <<"h","o","w","d","y">>, <<"g","r","e","e","t","i","n","g","s">>}, q)

\* The help test without its "info" keyword.
IsHelp_NoInfo(q) ==
    AnyIn({<<"h","e","l","p">>, <<"w","h","a","t"," ","c","a","n"," ","y","o","u">>, <<"w","h","o"," ","a","r","e"," ","y","o","u">>, <<"w","h","a","t"," ","d","o"," ","y","o","u"," ","d","o">>}, q)

IsHelp(q) ==
    AnyIn({<<"h","e","l","p">>, <<"w","h","a","t"," ","c","a","n"," ","y","o","u">>, <<"w","h","o"," ","a","r","e"," ","y","o","u">>, <<"i","n","f","o">>,
           <<"w","h","a","t"," ","d","o"," ","y","o","u"," ","d","o">>}, q)

IsThanks(q) ==
    AnyIn({<<"t","h","a","n","k","s">>, <<"t","h","a","n","k"," ","y","o","u">>, <<"t","h","a","n","k","y","o","u">>, <<"b","y","e">>, <<"g","o","o","d","b","y","e">>,
           <<"s","e","e"," ","y","o","u">>}, q)

IsListBrands(q) ==
    In(<<"b","r","a","n","d">>, q) /\ AnyIn({<<"l","i","s","t">>, <<"a","l","l">>, <<"a","v","a","i","l","a","b","l","e">>, <<"s","h","o","w">>}, q)

IsHowMany(q) ==
    In(<<"h","o","w"," ","m","a","n","y">>, q) /\ (In(<<"c","a","r">>, q) \/ In(<<"m","o","d","e","l">>, q) \/ In(<<"e","v">>, q))

IsDatasetSummary(q) ==
    AnyIn({<<"s","u","m","m","a","r","y">>, <<"s","t","a","t","s">>, <<"o","v","e","r","v","i","e","w">>, <<"d","a","t","a","s","e","t">>, <<"d","a","t","a"," ","i","n","f","o">>}, q)

ListBrands(d) ==
    LET brands == Sorted(UniqueBrands(d))
    IN  Answer("ListBrands", 0, brands, <<>>, <<<<Len(brands)>>>>)

HowMany(d) ==
    Answer("HowMany", 0, <<>>, <<>>, <<<<Len(d)>>, <<Len(UniqueBrands(d))>>>>)

DatasetSummary(d) ==
    Answer("DatasetSummary", 0, <<>>, <<>>,
        << <<Len(d)>>, <<Len(UniqueBrands(d))>>,
           Mean(d, Whole(d), "Estimated_US_Value"),
           Mean(d, Whole(d), "km_of_range"),
           Mean(d, Whole(d), "Battery"),
           ColMin(d, Whole(d), "Estimated_US_Value"),
           ColMax(d, Whole(d), "Estimated_US_Value"),
           ColMin(d, Whole(d), "km_of_range"),
           ColMax(d, Whole(d), "km_of_range") >>)

\* all_brands = [b.lower() for b in df['Brand'].unique()]
AllBrands(d) == [k \in DOMAIN UniqueBrands(d) |-> Lower(UniqueBrands(d)[k])]

\* found_brand: the title-cased first brand of all_brands that occurs in q;
\* None is the empty string (both are false in `if found_brand`).
FoundBrand(d, q) ==
    LET ab == AllBrands(d)
    IN  IF \E k \in DOMAIN ab : In(ab[k], q)
        THEN Title(ab[CHOOSE k \in DOMAIN ab :
                        In(ab[k], q) /\ \A j \in 1..(k-1) : ~In(ab[j], q)])
        ELSE <<>>

\* df_context = df[df['Brand'] == found_brand] if found_brand else df
DfContext(d, found_brand) ==
    IF found_brand # <<>> THEN BrandRows(d, Whole(d), found_brand) ELSE Whole(d)

\* parts = q.replace("compare", "").replace("vs", "|").split("|")
CompareParts(q) == Split(Replace(Replace(q, <<"c","o","m","p","a","r","e">>, <<>>), <<"v","s">>, <<"|">>), "|")

IsBrandComparison(d, q) ==
    In(<<"c","o","m","p","a","r","e">>, q) /\ In(<<"v","s">>, q)
    /\ \E k \in DOMAIN AllBrands(d) : In(AllBrands(d)[k], q)

\* valid_brands
ValidBrands(d, q) ==
    LET parts == CompareParts(q)
        kept == SelectSeq(parts, LAMBDA p : Strip(p) # <<>>)
        brand_names == [k \in DOMAIN kept |-> Title(Strip(kept[k]))]
    IN  SelectSeq(brand_names,
            LAMBDA b : \E k \in DOMAIN UniqueBrands(d) : UniqueBrands(d)[k] = b)

\* brand_stats(d): Models, Avg_Price, Avg_Range, Best_Range, Cheapest, Fastest
brand_stats(d, f) ==
    << <<Len(f)>>,
       Mean(d, f, "Estimated_US_Value"),
       Mean(d, f, "km_of_range"),
       ColMax(d, f, "km_of_range"),
       ColMin(d, f, "Estimated_US_Value"),
       ColMin(d, f, "Accel_0_100") >>

BrandComparison(d, q) ==
    LET valid_brands == ValidBrands(d, q)
    IN  IF Len(valid_brands) < 2
        THEN Answer("TwoValidBrands", 0, <<>>, <<>>, <<>>)
        ELSE LET b1 == valid_brands[1]
                 b2 == valid_brands[2]
             IN  Answer("BrandComparison", 0, <<b1, b2>>, <<>>,
                     brand_stats(d, BrandRows(d, Whole(d), b1))
                         \o brand_stats(d, BrandRows(d, Whole(d), b2)))

IsCarComparison(q) == In(<<"c","o","m","p","a","r","e">>, q) /\ In(<<"v","s">>, q)

\* q_key = query.lower().replace(" ", "").replace("-", "")
QKey(query) == Replace(Replace(Lower(query), <<" ">>, <<>>), <<"-">>, <<>>)

\* find_car(query): the label of the first matching row, 0 for None
find_car(d, query) ==
    LET matches == KeyMatches(d, QKey(query))
    IN  IF matches # <<>> THEN matches[1] ELSE 0

\* `not car` for what find_car returned: None is false, and the truth value
\* of a row Series of several fields is ambiguous, which raises ValueError.
NotCar(d, car) ==
    IF car = 0 THEN "True"
    ELSE IF Cardinality(DOMAIN d[car]) = 1 THEN "False"
    ELSE "ValueError"

CarComparison(d, q) ==
    LET parts == CompareParts(q)
    IN  IF Len(parts) < 2
        THEN Answer("SayCompare", 0, <<>>, <<>>, <<>>)
        ELSE LET car1_query == Strip(parts[1])
                 car2_query == Strip(parts[2])
                 car1 == find_car(d, car1_query)
                 car2 == find_car(d, car2_query)
                 not1 == NotCar(d, car1)
                 not2 == NotCar(d, car2)
             IN  \* if not car1 or not car2
                 IF not1 = "ValueError" THEN Raise("ValueError")
                 ELSE IF not1 = "True"
                 THEN Answer("CouldntFind", 0, <<car1_query>>, <<>>, <<>>)
                 ELSE IF not2 = "ValueError" THEN Raise("ValueError")
                 ELSE IF not2 = "True"
                 THEN Answer("CouldntFind", 0, <<car2_query>>, <<>>, <<>>)
                 ELSE Answer("CarComparison", 0, <<>>, <<d[car1], d[car2]>>, <<>>)

IsCarSummary(q) ==
    AnyIn({<<"t","e","l","l"," ","m","e"," ","a","b","o","u","t">>, <<"i","n","f","o"," ","o","n">>, <<"s","u","m","m","a","r","y">>, <<"d","e","t","a","i","l","s">>,
           <<"w","h","a","t"," ","i","s">>, <<"d","e","s","c","r","i","b","e">>}, q)

SummaryPrefixes ==
    << <<"t","e","l","l"," ","m","e"," ","a","b","o","u","t"," ">>, <<"i","n","f","o"," ","o","n"," ">>, <<"s","u","m","m","a","r","y"," ","o","f"," ">>, <<"d","e","t","a","i","l","s"," ","o","f"," ">>,
       <<"w","h","a","t"," ","i","s"," ">>, <<"d","e","s","c","r","i","b","e"," ">> >>

\* model_query: original_q without the first prefix it starts with
ModelQuery(original_q) ==
    LET ps == SummaryPrefixes
        hit(k) == StartsWith(Lower(original_q), ps[k])
    IN  IF \E k \in DOMAIN ps : hit(k)
        THEN LET k == CHOOSE i \in DOMAIN ps :
                          hit(i) /\ \A j \in 1..(i-1) : ~hit(j)
             IN  Strip(SubSeq(original_q, Len(ps[k]) + 1, Len(original_q)))
        ELSE original_q

CarSummary(d, original_q) ==
    LET model_query == ModelQuery(original_q)
        matches == KeyMatches(d, QKey(model_query))
    IN  IF matches = <<>>
        THEN Answer("SorryCouldntFind", 0, <<model_query>>, <<>>, <<>>)
        ELSE Answer("CarSummary", 0, <<>>, <<d[matches[1]]>>, <<>>)

IsLongestRange(q) ==
    (In(<<"l","o","n","g","e","s","t">>, q) \/ In(<<"m","o","s","t">>, q) \/ In(<<"b","e","s","t">>, q)) /\ In(<<"r","a","n","g","e">>, q)

IsCheapest(q) ==
    In(<<"c","h","e","a","p","e","s","t">>, q) \/ (In(<<"l","o","w","e","s","t">>, q) /\ In(<<"p","r","i","c","e">>, q))

IsFastest(q) ==
    (In(<<"f","a","s","t","e","s","t">>, q) \/ In(<<"q","u","i","c","k","e","s","t">>, q))
    /\ (In(<<"0","-","1","0","0">>, q) \/ In(<<"a","c","c","e","l","e","r","a","t","i","o","n">>, q))

IsTowing(q) ==
    In(<<"t","o","w","i","n","g">>, q) /\ AnyIn({<<"m","o","s","t">>, <<"h","i","g","h","e","s","t">>, <<"b","e","s","t">>, <<"m","a","x">>}, q)

\* df_context.loc[df_context[col].idxmax()]: idxmax of an empty frame
\* raises ValueError.
ExtremeMax(kind, d, f, col, found_brand) ==
    IF f = <<>> THEN Raise("ValueError")
    ELSE Answer(kind, 0, <<found_brand>>, <<d[idxmax(d, f, col)]>>, <<>>)

ExtremeMin(kind, d, f, col, found_brand) ==
    IF f = <<>> THEN Raise("ValueError")
    ELSE Answer(kind, 0, <<found_brand>>, <<d[idxmin(d, f, col)]>>, <<>>)

\* The price filter lost: rows of price 0 stay in the scope.
ValidPrice_Unfiltered(d, f) == f

\* valid = df_context[df_context['Estimated_US_Value'] > 0]
ValidPrice(d, f) == PricedRows(d, f)

Cheapest(d, f, found_brand) ==
    LET valid == ValidPrice(d, f)
    IN  IF valid = <<>>
        THEN Answer("NoPricedCars", 0, <<found_brand>>, <<>>, <<>>)
        ELSE Answer("Cheapest", 0, <<found_brand>>,
                 <<d[idxmin(d, valid, "Estimated_US_Value")]>>, <<>>)

IsBrandBest(q, found_brand) ==
    found_brand # <<>>
    /\ AnyIn({<<"b","e","s","t">>, <<"t","o","p">>, <<"h","i","g","h","e","s","t">>, <<"l","o","n","g","e","s","t">>, <<"c","h","e","a","p","e","s","t">>,
              <<"f","a","s","t","e","s","t">>}, q)

\* df_context[df_context[price] > 0].loc[df_context[price].idxmin()]: the
\* label is looked for in all of df_context (ValueError when that is empty)
\* and then looked up among the priced rows (KeyError when it is not one).
BrandCheapest(d, f, found_brand) ==
    LET priced == PricedRows(d, f)
    IN  IF f = <<>> THEN Raise("ValueError")
        ELSE LET label == idxmin(d, f, "Estimated_US_Value")
             IN  IF \E k \in DOMAIN priced : priced[k] = label
                 THEN Answer("BrandCheapest", 0, <<found_brand>>, <<d[label]>>, <<>>)
                 ELSE Raise("KeyError")

IsBrandSummary(q, found_brand) == found_brand # <<>> /\ WordCount(q) <= 3

BrandSummary(d, f, found_brand) ==
    Answer("BrandSummary", 0, <<found_brand>>, <<>>,
        << <<Len(f)>>,
           Mean(d, f, "Estimated_US_Value"),
           Mean(d, f, "km_of_range"),
           ColMin(d, f, "Estimated_US_Value"),
           ColMax(d, f, "Estimated_US_Value") >>)

\* process_query(query) over the table d; rnd is what random.choice draws.
process_query(d, query, rnd) ==
    LET q == Strip(Lower(query))
        original_q == Strip(query)
        found_brand == FoundBrand(d, q)
        df_context == DfContext(d, found_brand)
        brand_best == IsBrandBest(q, found_brand)
    IN  IF DfEmpty(d) THEN Answer("DataUnavailable", 0, <<>>, <<>>, <<>>)
        ELSE IF IsGreeting(q) THEN Answer("Greeting", rnd, <<>>, <<>>, <<>>)
        ELSE IF IsHelp(q) THEN Answer("Help", 0, <<>>, <<>>, <<>>)
        ELSE IF IsThanks(q) THEN Answer("Thanks", rnd, <<>>, <<>>, <<>>)
        ELSE IF IsListBrands(q) THEN ListBrands(d)
        ELSE IF IsHowMany(q) THEN HowMany(d)
        ELSE IF IsDatasetSummary(q) THEN DatasetSummary(d)
        ELSE IF IsBrandComparison(d, q) THEN BrandComparison(d, q)
        ELSE IF IsCarComparison(q) THEN CarComparison(d, q)
        ELSE IF IsCarSummary(q) THEN CarSummary(d, original_q)
        ELSE IF IsLongestRange(q)
             THEN ExtremeMax("LongestRange", d, df_context, "km_of_range", found_brand)
        ELSE IF IsCheapest(q) THEN Cheapest(d, df_context, found_brand)
        ELSE IF IsFastest(q)
             THEN ExtremeMin("Fastest", d, df_context, "Accel_0_100", found_brand)
        ELSE IF IsTowing(q)
             THEN ExtremeMax("Towing", d, df_context, "Towing_capacity_in_kg", found_brand)
        ELSE IF brand_best /\ In(<<"r","a","n","g","e">>, q)
             THEN ExtremeMax("BrandBestRange", d, df_context, "km_of_range", found_brand)
        ELSE IF brand_best /\ (In(<<"p","r","i","c","e">>, q) \/ In(<<"c","h","e","a","p","e","s","t">>, q))
             THEN BrandCheapest(d, df_context, found_brand)
        ELSE IF brand_best
                /\ (In(<<"0","-","1","0","0">>, q) \/ In(<<"a","c","c","e","l","e","r","a","t","i","o","n">>, q) \/ In(<<"f","a","s","t","e","s","t">>, q))
             THEN ExtremeMin("BrandFastest", d, df_context, "Accel_0_100", found_brand)
        ELSE IF IsBrandSummary(q, found_brand)
             THEN BrandSummary(d, df_context, found_brand)
        ELSE Answer("Fallback", rnd, <<>>, <<>>, <<>>)

\* ------------------------------------------------------------------------
\* The chat page
\* ------------------------------------------------------------------------

\* Brands and models as a user types them.
TypedBrands == {Catalogue[i].Brand : i \in DOMAIN Catalogue}

TypedModels == {Strip(Catalogue[i].Model) : i \in DOMAIN Catalogue}

\* Fragments a user compares: three models of the catalogue and one of none.
Fragments == {<<"i","4">>, <<"i","X">>, <<"M","o","d","e","l"," ","3">>, <<"z","z","z">>}

LongestRangeFor(b) == <<"l","o","n","g","e","s","t"," ","r","a","n","g","e"," ","f","o","r"," ">> \o b

CompareQuery(x, y) == <<"c","o","m","p","a","r","e"," ">> \o x \o <<" ","v","s"," ">> \o y

InfoOn(b) == <<"i","n","f","o"," ","o","n"," ">> \o b

TellMeAbout(m) == <<"t","e","l","l"," ","m","e"," ","a","b","o","u","t"," ">> \o m

CheapestOf(b) == <<"c","h","e","a","p","e","s","t"," ">> \o b

BestPriceOf(b) == <<"b","e","s","t"," ">> \o b \o <<" ","p","r","i","c","e">>

CheapestCar == <<"c","h","e","a","p","e","s","t"," ","c","a","r">>

\* What is typed into st.chat_input.
Prompts ==
    { <<"h","e","l","l","o">>, <<"a","s","d","k","f","j">>, <<"t","h","a","n","k","s">>, <<"h","e","l","p">>, <<"l","i","s","t"," ","a","l","l"," ","b","r","a","n","d","s">>,
      <<"h","o","w"," ","m","a","n","y"," ","c","a","r","s">>, <<"s","h","o","w"," ","s","u","m","m","a","r","y">>, <<"l","o","n","g","e","s","t"," ","r","a","n","g","e">>, CheapestCar,
      <<"l","o","w","e","s","t"," ","p","r","i","c","e">>, <<"f","a","s","t","e","s","t"," ","0","-","1","0","0">>, <<"b","e","s","t"," ","t","o","w","i","n","g">>,
      <<"t","o","p"," ","T","e","s","l","a"," ","r","a","n","g","e">>, <<"f","a","s","t","e","s","t"," ","B","M","W">>,
      <<"c","o","m","p","a","r","e"," ","T","e","s","l","a"," ","M","o","d","e","l"," ","3"," ","v","s"," ","B","M","W"," ","i","4">> }
    \cup {LongestRangeFor(b) : b \in TypedBrands}
    \cup {CheapestOf(b) : b \in TypedBrands}
    \cup {BestPriceOf(b) : b \in TypedBrands}
    \cup {InfoOn(b) : b \in TypedBrands}
    \cup TypedBrands
    \cup {TellMeAbout(m) : m \in TypedModels}
    \cup {CompareQuery(a, b) : a, b \in TypedBrands}
    \cup {CompareQuery(x, y) : x, y \in Fragments}

\* No prompt is being answered.
NoResponse == Answer("None", 0, <<>>, <<>>, <<>>)

\* The welcome text st.session_state.messages starts with.
Welcome == Answer("Welcome", 0, <<>>, <<>>, <<>>)

UserMsg(content) == [role |-> "user", content |-> content]

AssistantMsg(content) == [role |-> "assistant", content |-> content]

\* if "messages" not in st.session_state: the history of a new session
NewMessages == <<AssistantMsg(Welcome)>>

Init ==
    /\ \E csv \in CsvFiles : df = LoadedTable(csv)
    /\ pc = "ready"
    /\ prompt = <<>>
    /\ response = NoResponse
    /\ messages = NewMessages

\* The body of `if prompt := st.chat_input(...)`: the user message is
\* appended, process_query runs, and its answer is appended; an exception
\* out of process_query ends the script run before the second append, and
\* session_state keeps what was appended.
Submit(query, rnd) ==
    LET r == process_query(df, query, rnd)
    IN  /\ prompt' = query
        /\ response' = r
        /\ messages' = IF r.kind \in Exceptions
                       THEN Append(messages, UserMsg(query))
                       ELSE messages \o <<UserMsg(query), AssistantMsg(r)>>
        /\ pc' = "answered"
        /\ UNCHANGED df

\* The first prompt of a session, any of Prompts.
ChatInput ==
    /\ pc = "ready"
    /\ messages = NewMessages
    /\ \E query \in Prompts, rnd \in 1..3 : Submit(query, rnd)

\* The script run ends; the next run starts with no prompt and the history
\* session_state kept.
Rerun ==
    /\ pc = "answered"
    /\ pc' = "ready"
    /\ prompt' = <<>>
    /\ response' = NoResponse
    /\ UNCHANGED <<df, messages>>

\* The page is opened anew: a session whose session_state has no messages.
NewSession ==
    /\ pc = "ready"
    /\ messages # NewMessages
    /\ messages' = NewMessages
    /\ UNCHANGED <<df, pc, prompt, response>>

Next == ChatInput \/ Rerun \/ NewSession

\* Sessions up to their first prompt, over every CSV file and prompt.
Spec == Init /\ [][Next]_vars

\* Largest number of prompts submitted in one session.
MaxTurns == 3

\* The CSV files of the longer sessions: the missing file, and a file of a
\* Tesla and a BMW.
ChatCsvFiles == {<<>>, <<Catalogue[1], Catalogue[3]>>}

\* The prompts of the longer sessions: a greeting, two extremum lookups (one
\* of them brand-scoped) and a model summary.
ChatPrompts ==
    { <<"h","e","l","l","o">>, CheapestCar,
      LongestRangeFor(Catalogue[1].Brand), TellMeAbout(Catalogue[3].Model) }

\* The user messages of a history.
UserMessages(ms) == {i \in DOMAIN ms : ms[i].role = "user"}

InitChat ==
    /\ \E csv \in ChatCsvFiles : df = LoadedTable(csv)
    /\ pc = "ready"
    /\ prompt = <<>>
    /\ response = NoResponse
    /\ messages = NewMessages

\* Any prompt of a session, the first or a later one.
ChatTurn ==
    /\ pc = "ready"
    /\ Cardinality(UserMessages(messages)) < MaxTurns
    /\ \E query \in ChatPrompts, rnd \in 1..3 : Submit(query, rnd)

NextChat == ChatTurn \/ Rerun \/ NewSession

\* Sessions of up to MaxTurns prompts.
SpecChat == InitChat /\ [][NextChat]_vars

\* ------------------------------------------------------------------------
\* Properties
\* ------------------------------------------------------------------------

\* A prompt has been answered by process_query.
Answered == pc = "answered"

\* The query as the cascade tests it.
Q == Strip(Lower(prompt))

\* The rows of brand b, whatever capitalisation b is typed in.
RowsOf(b) == BrandRows(df, Whole(df), Upper(b))

\* An intent tested before the two comparison intents matches.
BeforeComparison(q) ==
    \/ IsGreeting(q) \/ IsHelp(q) \/ IsThanks(q)
    \/ IsListBrands(q) \/ IsHowMany(q) \/ IsDatasetSummary(q)

\* An intent tested before the car summary matches.
BeforeCarSummary(q) == BeforeComparison(q) \/ IsCarComparison(q)

\* C1: over a non-empty record store process_query returns a string for
\* every query and never raises an exception.
C1_NeverRaises ==
    (Answered /\ df # <<>>) => response.kind \notin Exceptions

\* C2: a longest-range query that mentions a brand B having records names
\* B's record of maximum range, even when another brand holds the
\* dataset-wide maximum.
C2_ScopedLongestRange ==
    \A b \in TypedBrands :
        (Answered /\ prompt = LongestRangeFor(b) /\ RowsOf(b) # <<>>) =>
            /\ response.kind = "LongestRange"
            /\ response.cars[1].Brand = Upper(b)
            /\ <<response.cars[1].km_of_range>> = ColMax(df, RowsOf(b), "km_of_range")

\* C3: "compare A vs B", for distinct brands A and B that both have records,
\* reports the aggregate stats of exactly A and B (in either order); neither
\* side is dropped.
C3_ComparisonSymmetry ==
    \A a, b \in TypedBrands :
        (/\ Answered /\ a # b /\ prompt = CompareQuery(a, b)
         /\ RowsOf(a) # <<>> /\ RowsOf(b) # <<>>) =>
            /\ response.kind = "BrandComparison"
            /\ \/ /\ response.names = <<Upper(a), Upper(b)>>
                  /\ response.nums = brand_stats(df, RowsOf(a)) \o brand_stats(df, RowsOf(b))
               \/ /\ response.names = <<Upper(b), Upper(a)>>
                  /\ response.nums = brand_stats(df, RowsOf(b)) \o brand_stats(df, RowsOf(a))

\* C4: in a model comparison "compare X vs Y" where a side does not resolve,
\* the answer is the NoMatch message naming the unresolved fragment: X when
\* X does not resolve, Y when X resolves and Y does not; nothing is raised.
C4_UnresolvedSideNamed ==
    \A x, y \in Fragments :
        (/\ Answered /\ df # <<>> /\ prompt = CompareQuery(x, y)
         /\ ~BeforeComparison(Q) /\ ~IsBrandComparison(df, Q)
         /\ (find_car(df, x) = 0 \/ find_car(df, y) = 0)) =>
            /\ response.kind = "CouldntFind"
            /\ response.names = <<Lower(IF find_car(df, x) = 0 THEN x ELSE y)>>

\* The cheapest / lowest-price requests: whole dataset, brand-scoped, and the
\* brand-specific superlative reached by a brand plus "price".
CheapestPrompts ==
    {CheapestCar, <<"l","o","w","e","s","t"," ","p","r","i","c","e">>}
    \cup {CheapestOf(b) : b \in TypedBrands}
    \cup {BestPriceOf(b) : b \in TypedBrands}

\* C5: a cheapest / lowest-price request evaluated over a scope holding no
\* record of price > 0 is answered by the "no priced cars found" message,
\* and nothing is raised.
C5_EmptyScopeMessage ==
    (/\ Answered /\ df # <<>> /\ prompt \in CheapestPrompts
     /\ PricedRows(df, DfContext(df, FoundBrand(df, Q))) = <<>>) =>
        response.kind = "NoPricedCars"

\* The least price above 0 in the store.
MinPositivePrice ==
    ColMin(df, PricedRows(df, Whole(df)), "Estimated_US_Value")

\* C6: when the store holds a record of price > 0, "cheapest car" names a
\* record of the store whose price is the least price above 0, never a
\* record of price 0.
C6_CheapestSkipsZeroPrice ==
    (Answered /\ prompt = CheapestCar /\ PricedRows(df, Whole(df)) # <<>>) =>
        /\ response.kind = "Cheapest"
        /\ \E i \in DOMAIN df : response.cars = <<df[i]>>
        /\ response.cars[1].Estimated_US_Value > 0
        /\ <<response.cars[1].Estimated_US_Value>> = MinPositivePrice

\* "cheapest car" was answered over a store whose least price is 0 and that
\* also holds a priced record.
C6_Witness ==
    /\ Answered /\ prompt = CheapestCar
    /\ ColMin(df, Whole(df), "Estimated_US_Value") = <<0>>
    /\ PricedRows(df, Whole(df)) # <<>>
    /\ response.kind = "Cheapest"

C8_EmptyStoreUnavailable ==
    (Answered /\ df = <<>>) =>
        response = Answer("DataUnavailable", 0, <<>>, <<>>, <<>>)

\* A greeting was answered over the empty store.
C8_Witness ==
    /\ Answered /\ df = <<>> /\ prompt = <<"h","e","l","l","o">>
    /\ response.kind = "DataUnavailable"

\* C9: a query holding "compare" and "vs" that matches no earlier intent and
\* in which fewer than two brand names resolve is not answered by the
\* brand-comparison handler: it falls through to the car comparison.
C9_FallsThroughToCarComparison ==
    (/\ Answered /\ df # <<>>
     /\ IsCarComparison(Q) /\ ~BeforeComparison(Q)
     /\ Len(ValidBrands(df, Q)) < 2) =>
        response.kind \notin {"TwoValidBrands", "BrandComparison"}

\* C10: "tell me about <r.Model>", for a record r of the store and matching
\* no earlier intent, is answered by the field summary of a record whose
\* model name contains r.Model, never by the "couldn't find" message.
C10_ModelSelfResolution ==
    \A i \in DOMAIN df :
        (/\ Answered /\ prompt = TellMeAbout(df[i].Model)
         /\ ~BeforeCarSummary(Q)) =>
            /\ response.kind = "CarSummary"
            /\ In(Lower(df[i].Model), Lower(response.cars[1].Model))

\* C11: after any sequence of submitted prompts the history begins with the
\* assistant welcome message and alternates roles, every user message being
\* followed at once by the response computed for it, so that its length is
\* 1 + 2 * the number of prompts submitted.
C11_HistoryAlternates ==
    /\ messages[1] = AssistantMsg(Welcome)
    /\ Len(messages) = 1 + 2 * Cardinality(UserMessages(messages))
    /\ \A i \in 2..Len(messages) :
          messages[i].role = IF i % 2 = 0 THEN "user" ELSE "assistant"
    /\ \A i \in UserMessages(messages) :
          /\ i < Len(messages)
          /\ messages[i+1].role = "assistant"
          /\ \E rnd \in 1..3 :
                messages[i+1].content = process_query(df, messages[i].content, rnd)

\* C11, its last part: within a session a step leaves the messages already
\* in the history as they are.
C11_HistoryOnlyGrows ==
    [][NewSession \/ (Len(messages') >= Len(messages)
                      /\ SubSeq(messages', 1, Len(messages)) = messages)]_vars

====
